---- MODULE Spec2Model ----
(***************************************************************************)
(* Route search and algorithm comparison of the SCRES repository:          *)
(* the weighted Graph, build_graph_from_aas, run_dijkstra / dijkstra_path, *)
(* the A* search, sequential_search (waypoint chaining) and the genetic    *)
(* optimizer ga_shortest_path_process_based.                               *)
(*                                                                         *)
(* Numbers.  Coordinates are (lat, lon) pairs on the equator (lat = 0)     *)
(* whose longitudes are whole multiples of 360/FullTurn degrees.  For such *)
(* points the haversine formula gives exactly R * (shorter arc), so every  *)
(* distance is a whole multiple of the unit R * 2*pi / FullTurn km and is  *)
(* carried here as that whole number.  Wall-clock times (time.perf_counter) *)
(* are not modelled.                                                       *)
(***************************************************************************)
EXTENDS Integers, Sequences, FiniteSets, TLC

\* ------------------------------------------------------------------ bounds
Names == {"A", "B", "C", "D"}
MaxLon == 3
MaxW == 2
MaxOps == 4
MaxWaypoints == 3
PopSize == 3
MaxGen == 2

Lons == 0..MaxLon
FullTurn == MaxLon + 1
Coords == {<<0, l>> : l \in Lons}
Weights == 0..MaxW

\* float("inf"): the cost of "no path".  Costs are >= 0, so -1 is free to stand
\* for it; Add and the comparisons below treat it as infinity.
Inf == -1

VARIABLES graph, gop, dj, ast, ch, ga, mn, cv

\* ------------------------------------------------------------- arithmetic
Abs(x) == IF x < 0 THEN -x ELSE x

Add(a, b) == IF a = Inf \/ b = Inf THEN Inf ELSE a + b

\* haversine(lat1, lon1, lat2, lon2) for lat1 = lat2 = 0:
\* a = sin^2(dlambda/2), 2*R*atan2(sqrt(a), sqrt(1-a)) = R * shorter arc.
haversine(lat1, lon1, lat2, lon2) ==
    LET d == Abs(lon2 - lon1)
    IN  IF 2 * d <= FullTurn THEN d ELSE FullTurn - d

\* ------------------------------------------------------------------ Graph
\* nodes: the node names in insertion order; coord: name -> (lat, lon);
\* neighbors: name -> sequence of <<neighbour name, weight>> in insertion order.
EmptyGraph == [nodes |-> <<>>, coord |-> <<>>, neighbors |-> <<>>]

Range(s) == {s[i] : i \in DOMAIN s}

NodeSet(g) == Range(g.nodes)

\* find_node(name): the node, or the "not found" signal.
find_node(g, name) == IF name \in NodeSet(g) THEN name ELSE "None"

NbrNames(g, a) == {g.neighbors[a][i][1] : i \in DOMAIN g.neighbors[a]}

\* add_node: inserts the node, or overwrites the payload of the node already
\* kept under that name; creates no edge.
add_node(g, name, c) ==
    IF name \in NodeSet(g)
    THEN [g EXCEPT !.coord = [n \in NodeSet(g) |-> IF n = name THEN c ELSE g.coord[n]]]
    ELSE [nodes |-> Append(g.nodes, name),
          coord |-> [n \in NodeSet(g) \cup {name} |->
                        IF n = name THEN c ELSE g.coord[n]],
          neighbors |-> [n \in NodeSet(g) \cup {name} |->
                        IF n = name THEN <<>> ELSE g.neighbors[n]]]

\* One endpoint's neighbour list after the edge to b with weight w is installed:
\* an existing entry for b has its weight overwritten, otherwise one is appended.
PutNeighbor(lst, b, w) ==
    IF \E i \in DOMAIN lst : lst[i][1] = b
    THEN [i \in DOMAIN lst |-> IF lst[i][1] = b THEN <<b, w>> ELSE lst[i]]
    ELSE Append(lst, <<b, w>>)

\* The error add_edge reports, "none" when it accepts the call.
add_edge_error(g, a, b) ==
    IF find_node(g, a) = "None" \/ find_node(g, b) = "None" THEN "missing_node"
    ELSE IF a = b THEN "self_edge"
    ELSE "none"

\* A defective add_edge: the endpoint that exists gets its half of the edge.
add_edge_half(g, a, b, w) ==
    IF a = b THEN g
    ELSE [g EXCEPT !.neighbors = [n \in NodeSet(g) |->
              IF n = a THEN PutNeighbor(g.neighbors[n], b, w)
              ELSE IF n = b THEN PutNeighbor(g.neighbors[n], a, w)
              ELSE g.neighbors[n]]]

\* A defective add_edge: the entry is appended even when the pair is connected.
add_edge_parallel(g, a, b, w) ==
    IF add_edge_error(g, a, b) # "none" THEN g
    ELSE [g EXCEPT !.neighbors = [n \in NodeSet(g) |->
              IF n = a THEN Append(g.neighbors[n], <<b, w>>)
              ELSE IF n = b THEN Append(g.neighbors[n], <<a, w>>)
              ELSE g.neighbors[n]]]

\* add_edge: rejected (graph unchanged) when an endpoint is absent or a = b,
\* otherwise installed on both endpoints with the same weight.
add_edge(g, a, b, w) ==
    IF add_edge_error(g, a, b) # "none" THEN g
    ELSE [g EXCEPT !.neighbors = [n \in NodeSet(g) |->
              IF n = a THEN PutNeighbor(g.neighbors[n], b, w)
              ELSE IF n = b THEN PutNeighbor(g.neighbors[n], a, w)
              ELSE g.neighbors[n]]]

\* ---------------------------------------------------- build_graph_from_aas
\* coords is a dict: a sequence of <<name, (lat, lon)>> with distinct names.
RECURSIVE AddNodes(_, _, _)
AddNodes(g, coords, i) ==
    IF i > Len(coords) THEN g
    ELSE AddNodes(add_node(g, coords[i][1], coords[i][2]), coords, i + 1)

\* for b in names[from:]: graph.add_edge(a, b, haversine(coords[a], coords[b]))
RECURSIVE AddEdgesFrom(_, _, _, _)
AddEdgesFrom(g, coords, i, j) ==
    IF j > Len(coords) THEN g
    ELSE AddEdgesFrom(
            add_edge(g, coords[i][1], coords[j][1],
                     haversine(coords[i][2][1], coords[i][2][2],
                               coords[j][2][1], coords[j][2][2])),
            coords, i, j + 1)

RECURSIVE AddAllEdges(_, _, _, _)
AddAllEdges(g, coords, i, skip) ==
    IF i > Len(coords) THEN g
    ELSE AddAllEdges(AddEdgesFrom(g, coords, i, i + skip), coords, i + 1, skip)

\* A defective build: the inner loop runs over names[i + 2:].
build_graph_skip(coords) ==
    AddAllEdges(AddNodes(EmptyGraph, coords, 1), coords, 1, 2)

build_graph_from_aas(coords) ==
    AddAllEdges(AddNodes(EmptyGraph, coords, 1), coords, 1, 1)

\* The dicts name -> (lat, lon) with k keys: the keys in insertion order (all
\* distinct) paired with their values.
Injective(f) == \A i, j \in DOMAIN f : i # j => f[i] # f[j]

KeyOrders(k) == {f \in [1..k -> Names] : Injective(f)}

MakeDict(keys, vals) == [i \in DOMAIN keys |-> <<keys[i], vals[i]>>]

\* ---------------------------------------------------------- path_distance
\* for neigh, w in node.neighbors: if neigh.value == b: total += w; break
\* -- the weight of the first entry for b, and nothing when there is none.
RECURSIVE FirstWeight(_, _, _)
FirstWeight(nbrs, b, i) ==
    IF i > Len(nbrs) THEN 0
    ELSE IF nbrs[i][1] = b THEN nbrs[i][2]
    ELSE FirstWeight(nbrs, b, i + 1)

RECURSIVE path_distance_from(_, _, _)
path_distance_from(g, path, i) ==
    IF i >= Len(path) THEN 0
    ELSE FirstWeight(g.neighbors[path[i]], path[i + 1], 1)
            + path_distance_from(g, path, i + 1)

path_distance(g, path) == path_distance_from(g, path, 1)

\* ------------------------------------------------------------ run_dijkstra
\* dj: the locals of run_dijkstra and what it returns.  queue holds the heap's
\* (d, node) entries; a node is pushed only with a d below its dist, so no entry
\* is ever pushed twice and a set holds them.  dist and prev are dicts: functions
\* on the keys they have.  pc: "idle", "call", "loop", "after", "done", and
\* "error" when the call raised (AttributeError on a None node, KeyError).
DjIdle ==
    [pc |-> "idle", start |-> "None", goal |-> "None", queue |-> {},
     dist |-> <<>>, prev |-> <<>>, visited |-> {}, steps |-> 0,
     path |-> <<>>, cost |-> 0]

Put(f, k, v) == [x \in DOMAIN f \cup {k} |-> IF x = k THEN v ELSE f[x]]

\* A defective relaxation: nd = w, the distance of the popped node is left out.
RECURSIVE RelaxNeighbors_noadd(_, _, _, _, _)
RelaxNeighbors_noadd(st, nbrs, i, d, node) ==
    IF i > Len(nbrs) THEN st
    ELSE LET neigh == nbrs[i][1]
             nd == nbrs[i][2]
         IN  IF neigh \notin DOMAIN st.dist \/ nd < st.dist[neigh]
             THEN RelaxNeighbors_noadd(
                    [st EXCEPT !.dist = Put(st.dist, neigh, nd),
                               !.prev = Put(st.prev, neigh, node),
                               !.queue = st.queue \cup {<<nd, neigh>>}],
                    nbrs, i + 1, d, node)
             ELSE RelaxNeighbors_noadd(st, nbrs, i + 1, d, node)

\* A defective relaxation: nd <= dist, an equally long route displaces the old.
RECURSIVE RelaxNeighbors_le(_, _, _, _, _)
RelaxNeighbors_le(st, nbrs, i, d, node) ==
    IF i > Len(nbrs) THEN st
    ELSE LET neigh == nbrs[i][1]
             nd == d + nbrs[i][2]
         IN  IF neigh \notin DOMAIN st.dist \/ nd <= st.dist[neigh]
             THEN RelaxNeighbors_le(
                    [st EXCEPT !.dist = Put(st.dist, neigh, nd),
                               !.prev = Put(st.prev, neigh, node),
                               !.queue = st.queue \cup {<<nd, neigh>>}],
                    nbrs, i + 1, d, node)
             ELSE RelaxNeighbors_le(st, nbrs, i + 1, d, node)

\* for neigh, w in node.neighbors: ... (lines 80-85), from entry i on.
RECURSIVE RelaxNeighbors(_, _, _, _, _)
RelaxNeighbors(st, nbrs, i, d, node) ==
    IF i > Len(nbrs) THEN st
    ELSE LET neigh == nbrs[i][1]
             nd == d + nbrs[i][2]
         IN  IF neigh \notin DOMAIN st.dist \/ nd < st.dist[neigh]
             THEN RelaxNeighbors(
                    [st EXCEPT !.dist = Put(st.dist, neigh, nd),
                               !.prev = Put(st.prev, neigh, node),
                               !.queue = st.queue \cup {<<nd, neigh>>}],
                    nbrs, i + 1, d, node)
             ELSE RelaxNeighbors(st, nbrs, i + 1, d, node)

\* A defective pop: any entry, whatever its d (a plain list used as the queue).
MinEntries_any(queue) == queue

\* The entries heappop may return: those of least d (the order of two nodes
\* with equal d is the Node comparison's, which is left open).
MinEntries(queue) == {e \in queue : \A f \in queue : e[1] <= f[1]}

\* A defective walk: the path is not reversed.
RECURSIVE WalkBack_noreverse(_, _, _, _)
WalkBack_noreverse(prev, cur, start, acc) ==
    IF cur = start THEN acc
    ELSE IF cur \notin DOMAIN prev \/ Len(acc) > Cardinality(DOMAIN prev) + 1 THEN <<>>
    ELSE WalkBack_noreverse(prev, prev[cur], start, Append(acc, prev[cur]))

\* path = [goal]; while cur != start: cur = prev[cur]; path.append(cur);
\* path.reverse().  <<>> stands for the KeyError of a cur without predecessor
\* (and for a walk that never ends).
RECURSIVE WalkBack(_, _, _, _)
WalkBack(prev, cur, start, acc) ==
    IF cur = start THEN acc
    ELSE IF cur \notin DOMAIN prev \/ Len(acc) > Cardinality(DOMAIN prev) + 1 THEN <<>>
    ELSE WalkBack(prev, prev[cur], start, <<prev[cur]>> \o acc)

\* lines 63-70: the lookups and the initial locals.
DijkstraEnter ==
    /\ dj.pc = "call"
    /\ IF find_node(graph, dj.start) = "None"
       THEN dj' = [dj EXCEPT !.pc = "error"]
       ELSE dj' = [dj EXCEPT !.pc = "loop",
                             !.queue = {<<0, dj.start>>},
                             !.dist = Put(<<>>, dj.start, 0),
                             !.prev = <<>>,
                             !.visited = {},
                             !.steps = 0]
    /\ UNCHANGED <<graph, gop, ast, ch, ga, mn, cv>>

\* A defective iteration: the popped node is not added to visited.
DijkstraStep_novisit ==
    /\ dj.pc = "loop"
    /\ dj.queue # {}
    /\ \E e \in MinEntries(dj.queue) :
        LET d == e[1]
            node == e[2]
            rest == dj.queue \ {e}
        IN  IF node \in dj.visited
            THEN dj' = [dj EXCEPT !.queue = rest]
            ELSE IF node = find_node(graph, dj.goal)
            THEN dj' = [dj EXCEPT !.queue = rest,
                                  !.steps = dj.steps + 1,
                                  !.pc = "after"]
            ELSE LET st == RelaxNeighbors(
                              [queue |-> rest, dist |-> dj.dist, prev |-> dj.prev],
                              graph.neighbors[node], 1, d, node)
                 IN  dj' = [dj EXCEPT !.queue = st.queue,
                                      !.dist = st.dist,
                                      !.prev = st.prev,
                                      !.steps = dj.steps + 1]
    /\ UNCHANGED <<graph, gop, ast, ch, ga, mn, cv>>

\* A defective iteration: the goal test comes before steps += 1.
DijkstraStep_breakfirst ==
    /\ dj.pc = "loop"
    /\ dj.queue # {}
    /\ \E e \in MinEntries(dj.queue) :
        LET d == e[1]
            node == e[2]
            rest == dj.queue \ {e}
        IN  IF node \in dj.visited
            THEN dj' = [dj EXCEPT !.queue = rest]
            ELSE IF node = find_node(graph, dj.goal)
            THEN dj' = [dj EXCEPT !.queue = rest,
                                  !.visited = dj.visited \cup {node},
                                  !.pc = "after"]
            ELSE LET st == RelaxNeighbors(
                              [queue |-> rest, dist |-> dj.dist, prev |-> dj.prev],
                              graph.neighbors[node], 1, d, node)
                 IN  dj' = [dj EXCEPT !.queue = st.queue,
                                      !.dist = st.dist,
                                      !.prev = st.prev,
                                      !.visited = dj.visited \cup {node},
                                      !.steps = dj.steps + 1]
    /\ UNCHANGED <<graph, gop, ast, ch, ga, mn, cv>>

\* A defective iteration: the neighbour list of the node is used up as it is
\* relaxed.
DijkstraStep_consume ==
    /\ dj.pc = "loop"
    /\ dj.queue # {}
    /\ \E e \in MinEntries(dj.queue) :
        LET d == e[1]
            node == e[2]
            rest == dj.queue \ {e}
        IN  IF node \in dj.visited
            THEN dj' = [dj EXCEPT !.queue = rest]
            ELSE IF node = find_node(graph, dj.goal)
            THEN dj' = [dj EXCEPT !.queue = rest,
                                  !.visited = dj.visited \cup {node},
                                  !.steps = dj.steps + 1,
                                  !.pc = "after"]
            ELSE LET st == RelaxNeighbors(
                              [queue |-> rest, dist |-> dj.dist, prev |-> dj.prev],
                              graph.neighbors[node], 1, d, node)
                 IN  dj' = [dj EXCEPT !.queue = st.queue,
                                      !.dist = st.dist,
                                      !.prev = st.prev,
                                      !.visited = dj.visited \cup {node},
                                      !.steps = dj.steps + 1]
    /\ graph' = IF \E e \in MinEntries(dj.queue) :
                    e[2] \notin dj.visited /\ e[2] # find_node(graph, dj.goal)
                THEN LET e == CHOOSE x \in MinEntries(dj.queue) :
                                x[2] \notin dj.visited /\ x[2] # find_node(graph, dj.goal)
                     IN  [graph EXCEPT !.neighbors[e[2]] = <<>>]
                ELSE graph
    /\ UNCHANGED <<gop, ast, ch, ga, mn, cv>>

\* A defective iteration: steps += 1 comes before the visited test, every pop
\* is counted.
DijkstraStep_countall ==
    /\ dj.pc = "loop"
    /\ dj.queue # {}
    /\ \E e \in MinEntries(dj.queue) :
        LET d == e[1]
            node == e[2]
            rest == dj.queue \ {e}
        IN  IF node \in dj.visited
            THEN dj' = [dj EXCEPT !.queue = rest, !.steps = dj.steps + 1]
            ELSE IF node = find_node(graph, dj.goal)
            THEN dj' = [dj EXCEPT !.queue = rest,
                                  !.visited = dj.visited \cup {node},
                                  !.steps = dj.steps + 1,
                                  !.pc = "after"]
            ELSE LET st == RelaxNeighbors(
                              [queue |-> rest, dist |-> dj.dist, prev |-> dj.prev],
                              graph.neighbors[node], 1, d, node)
                 IN  dj' = [dj EXCEPT !.queue = st.queue,
                                      !.dist = st.dist,
                                      !.prev = st.prev,
                                      !.visited = dj.visited \cup {node},
                                      !.steps = dj.steps + 1]
    /\ UNCHANGED <<graph, gop, ast, ch, ga, mn, cv>>

\* lines 72-85: one iteration of the while loop.
DijkstraStep ==
    /\ dj.pc = "loop"
    /\ dj.queue # {}
    /\ \E e \in MinEntries(dj.queue) :
        LET d == e[1]
            node == e[2]
            rest == dj.queue \ {e}
        IN  IF node \in dj.visited
            THEN dj' = [dj EXCEPT !.queue = rest]
            ELSE IF node = find_node(graph, dj.goal)
            THEN dj' = [dj EXCEPT !.queue = rest,
                                  !.visited = dj.visited \cup {node},
                                  !.steps = dj.steps + 1,
                                  !.pc = "after"]
            ELSE LET st == RelaxNeighbors(
                              [queue |-> rest, dist |-> dj.dist, prev |-> dj.prev],
                              graph.neighbors[node], 1, d, node)
                 IN  dj' = [dj EXCEPT !.queue = st.queue,
                                      !.dist = st.dist,
                                      !.prev = st.prev,
                                      !.visited = dj.visited \cup {node},
                                      !.steps = dj.steps + 1]
    /\ UNCHANGED <<graph, gop, ast, ch, ga, mn, cv>>

\* line 72: the queue is empty, the loop ends.
DijkstraExhausted ==
    /\ dj.pc = "loop"
    /\ dj.queue = {}
    /\ dj' = [dj EXCEPT !.pc = "after"]
    /\ UNCHANGED <<graph, gop, ast, ch, ga, mn, cv>>

\* A defective return: "no path" is decided on prev instead of dist.
DijkstraReturn_prev ==
    /\ dj.pc = "after"
    /\ IF find_node(graph, dj.goal) = "None"
       THEN dj' = [dj EXCEPT !.pc = "error"]
       ELSE IF dj.goal \notin DOMAIN dj.prev
       THEN dj' = [dj EXCEPT !.pc = "done", !.path = <<>>, !.cost = Inf]
       ELSE LET path == WalkBack(dj.prev, dj.goal, dj.start, <<dj.goal>>)
            IN  IF path = <<>>
                THEN dj' = [dj EXCEPT !.pc = "error"]
                ELSE dj' = [dj EXCEPT !.pc = "done", !.path = path,
                                      !.cost = dj.dist[dj.goal]]
    /\ UNCHANGED <<graph, gop, ast, ch, ga, mn, cv>>

\* lines 88-97: the "no path" result, or the path walked back over prev.
DijkstraReturn ==
    /\ dj.pc = "after"
    /\ IF find_node(graph, dj.goal) = "None"
       THEN dj' = [dj EXCEPT !.pc = "error"]
       ELSE IF dj.goal \notin DOMAIN dj.dist
       THEN dj' = [dj EXCEPT !.pc = "done", !.path = <<>>, !.cost = Inf]
       ELSE LET path == WalkBack(dj.prev, dj.goal, dj.start, <<dj.goal>>)
            IN  IF path = <<>>
                THEN dj' = [dj EXCEPT !.pc = "error"]
                ELSE dj' = [dj EXCEPT !.pc = "done", !.path = path,
                                      !.cost = dj.dist[dj.goal]]
    /\ UNCHANGED <<graph, gop, ast, ch, ga, mn, cv>>

\* ------------------------------------------------------- A* and run_astar
\* ast: the state of one AStar(graph, start, goal).search(): open is the
\* frontier, closed the finalized nodes, g the accumulated cost of every node
\* seen, parent the recorded predecessors, steps the number_of_steps.
AstIdle ==
    [pc |-> "idle", start |-> "None", goal |-> "None", open |-> {},
     closed |-> {}, g |-> <<>>, parent |-> <<>>, steps |-> 0,
     path |-> <<>>, cost |-> 0]

\* h: the geospatial distance from the node to the goal.
Heuristic(g, n, goal) ==
    haversine(g.coord[n][1], g.coord[n][2], g.coord[goal][1], g.coord[goal][2])

\* The frontier entries of lowest key g + h (ties are left open).
LowestKey(g, st) ==
    {n \in st.open :
        \A m \in st.open :
            st.g[n] + Heuristic(g, n, st.goal) <= st.g[m] + Heuristic(g, m, st.goal)}

\* For each neighbour not yet closed: the tentative g; if improved, or the
\* neighbour was not seen, record the predecessor and put it in the frontier.
RECURSIVE ExpandNeighbors(_, _, _, _)
ExpandNeighbors(st, nbrs, i, node) ==
    IF i > Len(nbrs) THEN st
    ELSE LET neigh == nbrs[i][1]
             tentative == st.g[node] + nbrs[i][2]
         IN  IF neigh \notin st.closed
                /\ (neigh \notin DOMAIN st.g \/ tentative < st.g[neigh])
             THEN ExpandNeighbors(
                    [st EXCEPT !.g = Put(st.g, neigh, tentative),
                               !.parent = Put(st.parent, neigh, node),
                               !.open = st.open \cup {neigh}],
                    nbrs, i + 1, node)
             ELSE ExpandNeighbors(st, nbrs, i + 1, node)

\* run_astar: alg = AStar(graph, start, goal); no run_dijkstra is under way.
AStarEnter ==
    /\ ast.pc = "call"
    /\ dj.pc \in {"idle", "done", "error"}
    /\ IF find_node(graph, ast.start) = "None" \/ find_node(graph, ast.goal) = "None"
       THEN ast' = [ast EXCEPT !.pc = "error"]
       ELSE ast' = [ast EXCEPT !.pc = "loop",
                               !.open = {ast.start},
                               !.closed = {},
                               !.g = Put(<<>>, ast.start, 0),
                               !.parent = <<>>,
                               !.steps = 0]
    /\ UNCHANGED <<graph, gop, dj, ch, ga, mn, cv>>

\* One step: pop the lowest-key entry; the goal ends the search with the path
\* walked back over the predecessors, any other node is closed and expanded.
AStarStep ==
    /\ ast.pc = "loop"
    /\ ast.open # {}
    /\ \E node \in LowestKey(graph, ast) :
        IF node = ast.goal
        THEN ast' = [ast EXCEPT !.pc = "done",
                                !.open = ast.open \ {node},
                                !.steps = ast.steps + 1,
                                !.path = WalkBack(ast.parent, ast.goal, ast.start,
                                                  <<ast.goal>>),
                                !.cost = ast.g[ast.goal]]
        ELSE LET st == ExpandNeighbors(
                          [ast EXCEPT !.open = ast.open \ {node},
                                      !.closed = ast.closed \cup {node}],
                          graph.neighbors[node], 1, node)
             IN  ast' = [st EXCEPT !.steps = ast.steps + 1]
    /\ UNCHANGED <<graph, gop, dj, ch, ga, mn, cv>>

\* The frontier is exhausted: "no path".
AStarExhausted ==
    /\ ast.pc = "loop"
    /\ ast.open = {}
    /\ ast' = [ast EXCEPT !.pc = "done", !.path = <<>>, !.cost = Inf]
    /\ UNCHANGED <<graph, gop, dj, ch, ga, mn, cv>>

\* ------------------------------------------------------ sequential_search
\* ch: the locals of sequential_search(graph, nodes, algo_func).  i is the
\* index of the pair (nodes[i], nodes[i+1]) in hand; segs keeps what algo_func
\* returned for each pair so far: its path, distance and step count.
ChIdle ==
    [pc |-> "idle", algo |-> "none", nodes |-> <<>>, i |-> 0, full_path |-> <<>>,
     total_dist |-> 0, total_steps |-> 0, segs |-> <<>>]


Tail1(s) == IF s = <<>> THEN <<>> ELSE Tail(s)

\* A defective extend: the whole segment is appended, its first node included.
Extend_whole(full_path, seg_path) == full_path \o seg_path

\* full_path.extend(seg_path[1:])
Extend(full_path, seg_path) == full_path \o Tail1(seg_path)

\* A defective sum: the distance of a segment without a path is left out.
AddDist_skip(total, seg_path, seg_dist) ==
    IF seg_path = <<>> THEN total ELSE Add(total, seg_dist)

\* total_dist += seg_dist
AddDist(total, seg_path, seg_dist) == Add(total, seg_dist)

\* lines 253-256; nodes[0] of an empty list raises IndexError.
ChainEnter ==
    /\ ch.pc = "call"
    /\ IF ch.nodes = <<>>
       THEN ch' = [ch EXCEPT !.pc = "error"]
       ELSE ch' = [ch EXCEPT !.pc = "loop", !.i = 1,
                             !.full_path = <<ch.nodes[1]>>,
                             !.total_dist = 0, !.total_steps = 0, !.segs = <<>>]
    /\ UNCHANGED <<graph, gop, dj, ast, ga, mn, cv>>

\* line 258: algo_func(graph, a, b) is called for the next pair.
ChainCallSegment ==
    /\ ch.pc = "loop"
    /\ ch.i < Len(ch.nodes)
    /\ ch' = [ch EXCEPT !.pc = "wait"]
    /\ IF ch.algo = "dijkstra"
       THEN /\ dj' = [DjIdle EXCEPT !.pc = "call", !.start = ch.nodes[ch.i],
                                    !.goal = ch.nodes[ch.i + 1]]
            /\ ast' = ast
       ELSE /\ ast' = [AstIdle EXCEPT !.pc = "call", !.start = ch.nodes[ch.i],
                                      !.goal = ch.nodes[ch.i + 1]]
            /\ dj' = dj
    /\ UNCHANGED <<graph, gop, ga, mn, cv>>

\* What the call in hand returned: pc, path, cost, steps.
Callee == IF ch.algo = "dijkstra" THEN dj ELSE ast

\* lines 258-264: algo_func has returned (or raised); its segment is added.
ChainCollect ==
    /\ ch.pc = "wait"
    /\ Callee.pc \in {"done", "error"}
    /\ IF Callee.pc = "error"
       THEN ch' = [ch EXCEPT !.pc = "error"]
       ELSE LET a == ch.nodes[ch.i]
                b == ch.nodes[ch.i + 1]
                seg_path == IF Callee.path = <<>> THEN <<a, b>> ELSE Callee.path
            IN  ch' = [ch EXCEPT
                        !.pc = "loop",
                        !.i = ch.i + 1,
                        !.full_path = Extend(ch.full_path, seg_path),
                        !.total_dist = AddDist(ch.total_dist, Callee.path, Callee.cost),
                        !.total_steps = ch.total_steps + Callee.steps,
                        !.segs = Append(ch.segs, [path |-> Callee.path,
                                                  dist |-> Callee.cost,
                                                  steps |-> Callee.steps])]
    /\ dj' = DjIdle
    /\ ast' = AstIdle
    /\ UNCHANGED <<graph, gop, ga, mn, cv>>

\* line 265: the pairs are through.
ChainReturn ==
    /\ ch.pc = "loop"
    /\ ch.i >= Len(ch.nodes)
    /\ ch' = [ch EXCEPT !.pc = "done"]
    /\ UNCHANGED <<graph, gop, dj, ast, ga, mn, cv>>

\* ------------------------------------------ ga_shortest_path_process_based
\* ga: the arguments and locals of the optimizer.  machines is the dict's values
\* in order, each a record of name, coords and process; an individual is the
\* list of indices (from 0) into the candidate lists of the flow's steps.
\* init_best keeps the first individual of least fitness of the randomly
\* initialised population, prev_best the best fitness of the population that
\* the last generation replaced.  p1, p2 and child are the locals of the
\* inner loop while a child is being made.
GaIdle ==
    [pc |-> "idle", machines |-> <<>>, process_flow |-> <<>>, generations |-> 0,
     pop_size |-> 0, population |-> <<>>, next_gen |-> <<>>, gen |-> 0,
     best_path |-> <<>>, best_fitness |-> 0, init_best |-> <<>>, prev_best |-> 0,
     p1 |-> <<>>, p2 |-> <<>>, child |-> <<>>]

\* next_gen = population[:2]
EliteCount == 2

\* random.sample(population[:10], 2)
ParentPool == 10

Min2(a, b) == IF a < b THEN a ELSE b

Prefix(s, n) == SubSeq(s, 1, Min2(n, Len(s)))

\* by_process[proc]: the names of the machines of that process, in dict order.
RECURSIVE Candidates(_, _, _)
Candidates(machines, proc, i) ==
    IF i > Len(machines) THEN <<>>
    ELSE IF machines[i].process = proc
         THEN <<machines[i].name>> \o Candidates(machines, proc, i + 1)
         ELSE Candidates(machines, proc, i + 1)

by_process(proc) == Candidates(ga.machines, proc, 1)

\* The individuals random_individual can return.
Individuals ==
    {ind \in [DOMAIN ga.process_flow -> 0..(Len(ga.machines) - 1)] :
        \A i \in DOMAIN ind : ind[i] < Len(by_process(ga.process_flow[i]))}

decode_individual(ind) ==
    [i \in DOMAIN ind |-> by_process(ga.process_flow[i])[ind[i] + 1]]

fitness(ind) == path_distance(graph, decode_individual(ind))

\* A defective crossover: p1[:point] + p2[point + 1:], one gene is lost.
crossover_drop(p1, p2, point) ==
    SubSeq(p1, 1, point) \o SubSeq(p2, point + 2, Len(p2))

\* p1[:point] + p2[point:]
crossover(p1, p2, point) == SubSeq(p1, 1, point) \o SubSeq(p2, point + 1, Len(p2))

\* A defective choice: the current index is not removed.
MutationChoices_same(ind, i) == 0..(Len(by_process(ga.process_flow[i])) - 1)

\* A defective choice: one index past the end of the step's candidates.
MutationChoices_wide(ind, i) ==
    {v \in 0..Len(by_process(ga.process_flow[i])) : v # ind[i]}

\* The values mutate may give gene i: the indices of the step other than ind[i].
MutationChoices(ind, i) ==
    {v \in 0..(Len(by_process(ga.process_flow[i])) - 1) : v # ind[i]}

\* population.sort(key=fitness): stable, each element goes behind those of
\* equal fitness that stood before it.
RECURSIVE InsertByFitness(_, _, _)
InsertByFitness(sorted, x, i) ==
    IF i > Len(sorted) THEN Append(sorted, x)
    ELSE IF fitness(x) < fitness(sorted[i])
         THEN SubSeq(sorted, 1, i - 1) \o <<x>> \o SubSeq(sorted, i, Len(sorted))
         ELSE InsertByFitness(sorted, x, i + 1)

RECURSIVE SortFrom(_, _, _)
SortFrom(pop, sorted, i) ==
    IF i > Len(pop) THEN sorted
    ELSE SortFrom(pop, InsertByFitness(sorted, pop[i], 1), i + 1)

SortByFitness(pop) == SortFrom(pop, <<>>, 1)

\* The least fitness in a population.
BestFitness(pop) ==
    CHOOSE f \in {fitness(pop[i]) : i \in DOMAIN pop} :
        \A i \in DOMAIN pop : f <= fitness(pop[i])

\* The first individual of least fitness in a population.
FirstBest(pop) ==
    pop[CHOOSE i \in DOMAIN pop :
            /\ fitness(pop[i]) = BestFitness(pop)
            /\ \A j \in 1..(i - 1) : fitness(pop[j]) > fitness(pop[i])]

\* A defective elitism: the first two of the unsorted population are kept.
Elites_unsorted(pop, sorted) == Prefix(pop, EliteCount)

\* next_gen = population[:2], of the sorted population.
Elites(pop, sorted) == Prefix(sorted, EliteCount)

\* lines 108-138: by_process and the random population.  A step without a
\* candidate raises (KeyError).
GAEnter ==
    /\ ga.pc = "call"
    /\ IF \E i \in DOMAIN ga.process_flow : by_process(ga.process_flow[i]) = <<>>
       THEN ga' = [ga EXCEPT !.pc = "error"]
       ELSE \E pop \in [1..ga.pop_size -> Individuals] :
              ga' = [ga EXCEPT !.pc = "gen", !.population = pop, !.gen = 0,
                               !.init_best = IF pop = <<>> THEN <<>>
                                             ELSE FirstBest(pop)]
    /\ UNCHANGED <<graph, gop, dj, ast, ch, mn, cv>>

\* lines 139-141: a generation starts: sort, keep the best two.
GAGenStart ==
    /\ ga.pc = "gen"
    /\ ga.gen < ga.generations
    /\ LET sorted == SortByFitness(ga.population)
       IN  ga' = [ga EXCEPT !.pc = "child", !.population = sorted,
                            !.next_gen = Elites(ga.population, sorted)]
    /\ UNCHANGED <<graph, gop, dj, ast, ch, mn, cv>>

\* lines 142-144: two parents sampled from the best ten and crossed.
\* random.sample of fewer than two and randint(1, 0) raise (ValueError).
GACrossover ==
    /\ ga.pc = "child"
    /\ Len(ga.next_gen) < ga.pop_size
    /\ LET pool == Prefix(ga.population, ParentPool)
           n == Len(ga.process_flow)
       IN  IF Len(pool) < 2 \/ n < 2
           THEN ga' = [ga EXCEPT !.pc = "error"]
           ELSE \E i1 \in DOMAIN pool, i2 \in DOMAIN pool, point \in 1..(n - 1) :
                  /\ i1 # i2
                  /\ ga' = [ga EXCEPT !.pc = "mutate",
                                      !.p1 = pool[i1],
                                      !.p2 = pool[i2],
                                      !.child = crossover(pool[i1], pool[i2], point)]
    /\ UNCHANGED <<graph, gop, dj, ast, ch, mn, cv>>

\* mutate(ind) with randint having given position i: the lists ind may be
\* afterwards (lines 126-134).
MutateAt(ind, i) ==
    IF Len(by_process(ga.process_flow[i])) <= 1 THEN {ind}
    ELSE {[ind EXCEPT ![i] = v] : v \in MutationChoices(ind, i)}

\* mutate(ind), any position.
Mutations(ind) == UNION {MutateAt(ind, i) : i \in DOMAIN ind}

\* A defective step: mutate is applied to the first parent, in place: the
\* parent is the same list in population and, for the first two, in next_gen.
GAMutate_inplace ==
    /\ ga.pc = "mutate"
    /\ LET k == CHOOSE x \in DOMAIN ga.population : ga.population[x] = ga.p1
       IN  \E out \in {ga.p1} \cup Mutations(ga.p1) :
              ga' = [ga EXCEPT !.pc = "child",
                               !.population[k] = out,
                               !.next_gen =
                                  Append(IF k <= Len(ga.next_gen)
                                         THEN [ga.next_gen EXCEPT ![k] = out]
                                         ELSE ga.next_gen,
                                         ga.child),
                               !.p1 = <<>>, !.p2 = <<>>, !.child = <<>>]
    /\ UNCHANGED <<graph, gop, dj, ast, ch, mn, cv>>

\* lines 145-147: the child is mutated or not, and appended.
GAMutate ==
    /\ ga.pc = "mutate"
    /\ \E out \in {ga.child} \cup Mutations(ga.child) :
          ga' = [ga EXCEPT !.pc = "child",
                           !.next_gen = Append(ga.next_gen, out),
                           !.p1 = <<>>, !.p2 = <<>>, !.child = <<>>]
    /\ UNCHANGED <<graph, gop, dj, ast, ch, mn, cv>>

\* line 148: population = next_gen.
GAReplace ==
    /\ ga.pc = "child"
    /\ Len(ga.next_gen) >= ga.pop_size
    /\ ga' = [ga EXCEPT !.pc = "gen", !.population = ga.next_gen, !.next_gen = <<>>,
                        !.gen = ga.gen + 1,
                        !.prev_best = IF ga.population = <<>> THEN 0
                                      ELSE BestFitness(ga.population)]
    /\ UNCHANGED <<graph, gop, dj, ast, ch, mn, cv>>

\* lines 150-154: sort once more and return the first; population[0] of an
\* empty population raises (IndexError).
GAReturn ==
    /\ ga.pc = "gen"
    /\ ga.gen >= ga.generations
    /\ LET sorted == SortByFitness(ga.population)
       IN  IF sorted = <<>>
           THEN ga' = [ga EXCEPT !.pc = "error"]
           ELSE ga' = [ga EXCEPT !.pc = "done", !.population = sorted,
                                 !.best_path = decode_individual(sorted[1]),
                                 !.best_fitness = fitness(sorted[1])]
    /\ UNCHANGED <<graph, gop, dj, ast, ch, mn, cv>>

\* ------------------------------------------------------------------- main
\* mn: the arguments and locals of main(): args.algorithm, args.generations,
\* args.population, the machines the loader returned (the dict's values in
\* order, keyed by their names), selected, node_names, a_cost and results.
\* pc: "idle", "call", "astar", "dijkstra", "ga" (the strategy under way),
\* "returned" (an early return, no result set), "done" (results written) and
\* "error" (a strategy raised).
MnIdle ==
    [pc |-> "idle", algorithm |-> "all", machines |-> <<>>, generations |-> 0,
     population |-> 0, selected |-> <<>>, node_names |-> <<>>, a_cost |-> 0,
     results |-> <<>>]

\* flow of select_machines (line 24) and process_flow of main (line 206).
SelectFlow == <<"Forging", "Turning", "Milling", "Grinding", "Assembly">>

MainFlow == <<"Forging", "Turning", "Milling", "Grinding">>

\* by_process[step] of select_machines: the machines of that process, in dict order.
RECURSIVE MachinesOf(_, _, _)
MachinesOf(machines, proc, i) ==
    IF i > Len(machines) THEN <<>>
    ELSE IF machines[i].process = proc
         THEN <<machines[i]>> \o MachinesOf(machines, proc, i + 1)
         ELSE MachinesOf(machines, proc, i + 1)

MachineDist(a, b) == haversine(a.coords[1], a.coords[2], b.coords[1], b.coords[2])

\* A defective choice: the first candidate, whatever its distance.
Nearest_first(prev, candidates) == candidates[1]

\* min(candidates, key=distance to prev): the first candidate of least distance.
Nearest(prev, candidates) ==
    candidates[CHOOSE i \in DOMAIN candidates :
        /\ \A j \in DOMAIN candidates :
              MachineDist(prev, candidates[i]) <= MachineDist(prev, candidates[j])
        /\ \A j \in 1..(i - 1) :
              MachineDist(prev, candidates[j]) > MachineDist(prev, candidates[i])]

\* for step in flow: ... (lines 27-40), from step s on.
RECURSIVE SelectFrom(_, _, _)
SelectFrom(machines, selected, s) ==
    IF s > Len(SelectFlow) THEN selected
    ELSE LET candidates == MachinesOf(machines, SelectFlow[s], 1)
         IN  IF candidates = <<>> THEN SelectFrom(machines, selected, s + 1)
             ELSE SelectFrom(machines,
                             Append(selected,
                                    IF selected = <<>> THEN candidates[1]
                                    ELSE Nearest(selected[Len(selected)], candidates)),
                             s + 1)

select_machines(machines) == SelectFrom(machines, <<>>, 1)

\* coords = {m.name: m.coords for m in machines.values()}
MachineCoords(machines) ==
    [i \in DOMAIN machines |-> <<machines[i].name, machines[i].coords>>]

\* One row of results, under the header of line 226.  time_s is a wall-clock
\* time, kept as a token.
Record(alg, path, dist, opt, iters) ==
    [algorithm |-> alg, path |-> path, distance_km |-> dist, time_s |-> "elapsed",
     optimal |-> opt, iterations |-> iters]

\* A defective flag: "not worse than A*".
OptimalFlag_notworse(cost, a_cost) ==
    IF cost = Inf \/ a_cost = Inf THEN FALSE ELSE cost - a_cost < 1

\* abs(cost - a_cost) < 1e-6.  Costs are whole multiples of a unit of thousands
\* of km, so the difference is below 1e-6 km exactly when it is below one unit;
\* inf - inf is nan and inf - x is inf, neither below the tolerance.
OptimalFlag(cost, a_cost) ==
    IF cost = Inf \/ a_cost = Inf THEN FALSE ELSE Abs(cost - a_cost) < 1

\* A defective test: Dijkstra runs under --algorithm all only.
RunsDijkstra_all(algorithm) == algorithm = "all"

\* args.algorithm in ("all", "dijkstra")
RunsDijkstra(algorithm) == algorithm \in {"all", "dijkstra"}

\* args.algorithm in ("all", "ga")
RunsGA(algorithm) == algorithm \in {"all", "ga"}

\* The strategy main turns to after the given one.
NextStage(stage, algorithm) ==
    IF stage = "astar" /\ RunsDijkstra(algorithm) THEN "dijkstra"
    ELSE IF stage \in {"astar", "dijkstra"} /\ RunsGA(algorithm) THEN "ga"
    ELSE "done"

\* The call main makes on entering a stage: sequential_search with
\* run_dijkstra, the GA with main's flow, or none (the results are written).
EnterStage(stage) ==
    /\ ch' = IF stage = "dijkstra"
             THEN [ChIdle EXCEPT !.pc = "call", !.nodes = mn.node_names,
                                 !.algo = "dijkstra"]
             ELSE ChIdle
    /\ ga' = IF stage = "ga"
             THEN [GaIdle EXCEPT !.pc = "call", !.machines = mn.machines,
                                 !.process_flow = MainFlow,
                                 !.generations = mn.generations,
                                 !.pop_size = mn.population]
             ELSE ga

\* lines 167-189: the early returns, select_machines, the graph over all
\* machines, and the call of sequential_search with run_astar.
MainStart ==
    /\ mn.pc = "call"
    /\ LET selected == select_machines(mn.machines)
           names == [i \in DOMAIN selected |-> selected[i].name]
       IN  IF mn.machines = <<>>
           THEN /\ mn' = [mn EXCEPT !.pc = "returned"]
                /\ UNCHANGED <<graph, ch>>
           ELSE IF Len(selected) < 2
           THEN /\ mn' = [mn EXCEPT !.pc = "returned", !.selected = selected]
                /\ UNCHANGED <<graph, ch>>
           ELSE /\ graph' = build_graph_from_aas(MachineCoords(mn.machines))
                /\ mn' = [mn EXCEPT !.pc = "astar", !.selected = selected,
                                    !.node_names = names, !.results = <<>>]
                /\ ch' = [ChIdle EXCEPT !.pc = "call", !.nodes = names,
                                        !.algo = "astar"]
    /\ UNCHANGED <<gop, dj, ast, ga, cv>>

\* lines 189-190: the A* chain has returned (or raised); its record is first.
MainAStarDone ==
    /\ mn.pc = "astar"
    /\ ch.pc \in {"done", "error"}
    /\ IF ch.pc = "error"
       THEN /\ mn' = [mn EXCEPT !.pc = "error"]
            /\ ch' = ChIdle
            /\ ga' = ga
       ELSE LET stage == NextStage("astar", mn.algorithm)
            IN  /\ mn' = [mn EXCEPT
                            !.pc = stage,
                            !.a_cost = ch.total_dist,
                            !.results = Append(mn.results,
                                Record("astar", ch.full_path, ch.total_dist, TRUE,
                                       ch.total_steps))]
                /\ EnterStage(stage)
    /\ UNCHANGED <<graph, gop, dj, ast, cv>>

\* lines 193-202: the Dijkstra chain has returned (or raised).
MainDijkstraDone ==
    /\ mn.pc = "dijkstra"
    /\ ch.pc \in {"done", "error"}
    /\ IF ch.pc = "error"
       THEN /\ mn' = [mn EXCEPT !.pc = "error"]
            /\ ch' = ChIdle
            /\ ga' = ga
       ELSE LET stage == NextStage("dijkstra", mn.algorithm)
            IN  /\ mn' = [mn EXCEPT
                            !.pc = stage,
                            !.results = Append(mn.results,
                                Record("dijkstra", ch.full_path, ch.total_dist,
                                       OptimalFlag(ch.total_dist, mn.a_cost),
                                       ch.total_steps))]
                /\ EnterStage(stage)
    /\ UNCHANGED <<graph, gop, dj, ast, cv>>

\* lines 205-222: the GA has returned (or raised).
MainGADone ==
    /\ mn.pc = "ga"
    /\ ga.pc \in {"done", "error"}
    /\ IF ga.pc = "error"
       THEN mn' = [mn EXCEPT !.pc = "error"]
       ELSE mn' = [mn EXCEPT
                     !.pc = "done",
                     !.results = Append(mn.results,
                         Record("ga", ga.best_path, ga.best_fitness,
                                OptimalFlag(ga.best_fitness, mn.a_cost),
                                ga.generations))]
    /\ ga' = GaIdle
    /\ UNCHANGED <<graph, gop, dj, ast, ch, cv>>

\* --------------------------------------------- convert_to_aas: _ident, _create
\* Strings are sequences of characters over Chars; " " and "\t" are the
\* whitespace among them.  None is the record NoneVal.
Chars == {"a", " ", "\t"}

MaxStr == 3

Strings == UNION {[1..n -> Chars] : n \in 0..MaxStr}

NoneVal == [type |-> "None"]

StrVal(s) == [type |-> "str", s |-> s]

IsSpace(c) == c \in {" ", "\t"}

\* str.lstrip() and str.rstrip()
RECURSIVE lstrip(_)
lstrip(s) == IF s # <<>> /\ IsSpace(Head(s)) THEN lstrip(Tail(s)) ELSE s

RECURSIVE rstrip(_)
rstrip(s) ==
    IF s # <<>> /\ IsSpace(s[Len(s)]) THEN rstrip(SubSeq(s, 1, Len(s) - 1)) ELSE s

\* A defective strip: the left side only.
strip_left(s) == lstrip(s)

\* str.strip()
strip(s) == rstrip(lstrip(s))

\* ident.replace(" ", "_")
replace_spaces(s) == [i \in DOMAIN s |-> IF s[i] = " " THEN "_" ELSE s[i]]

\* fallback_id's default, "http://example.com/dummy-id"
DefaultFallback ==
    <<"h", "t", "t", "p", ":", "/", "/", "e", "x", "a", "m", "p", "l", "e",
      ".", "c", "o", "m", "/", "d", "u", "m", "m", "y", "-", "i", "d">>

\* aas.Identifier(id=ident, id_type=id_type), then aas.Identifier(ident), then
\* ident, by what aas.Identifier is: "class" takes the keywords id and id_type;
\* "alias" is str, which rejects the keywords (TypeError) and takes the one
\* positional argument; "strict" rejects both calls.
MakeIdentifier(idkind, ident, id_type) ==
    IF idkind = "class"
    THEN [type |-> "Identifier", id |-> ident, id_type |-> id_type]
    ELSE StrVal(ident)

\* _ident(data, fallback_id) for a str or a dict data; idkind "none" is
\* aas is None.
_ident(idkind, data, fallback_id) ==
    IF idkind = "none" THEN NoneVal
    ELSE LET raw == strip(data.s)
             id_type == IF data.kind = "dict" THEN data.idType ELSE "Custom"
             first == IF raw = <<>> THEN fallback_id ELSE raw
             replaced == replace_spaces(first)
             ident == IF replaced = <<>> THEN fallback_id ELSE replaced
         IN  MakeIdentifier(idkind, ident, id_type)

\* not x, for the values in hand: None and the empty string are false.
Falsy(v) == v.type = "None" \/ (v.type = "str" /\ v.s = <<>>)

\* str(id_).strip() == "": only a string of whitespace prints as blank.
Blank(v) == v.type = "str" /\ strip(v.s) = <<>>

\* f"auto-id--{uuid.uuid4()}"
AutoId == StrVal(<<"a", "u", "t", "o", "-", "i", "d">>)

\* An instance of the class, its attributes as given.
Instance(cls, id, identification, id_short) ==
    [type |-> "instance", cls |-> cls, id |-> id,
     identification |-> identification, id_short |-> id_short]

\* cls(**kw) for the plain classes, by the keywords the constructor takes:
\* "Dummy" takes id, identification and id_short (all default None), "Sdk"
\* takes id_ and id_short.  Any other keyword is a TypeError.
Construct(cls, kw) ==
    LET known == IF cls = "Dummy" THEN {"id", "identification", "id_short"}
                 ELSE {"id_", "id_short"}
        get(k) == IF k \in DOMAIN kw THEN kw[k] ELSE NoneVal
    IN  IF ~(DOMAIN kw \subseteq known) THEN [type |-> "TypeError"]
        ELSE IF cls = "Dummy"
        THEN Instance(cls, get("id"), get("identification"), get("id_short"))
        ELSE Instance(cls, get("id_"), NoneVal, get("id_short"))

\* The keywords of a call: kwargs and the two _create adds.
WithIds(kwargs, id_, id_short) ==
    [k \in DOMAIN kwargs \cup {"id_", "id_short"} |->
        IF k = "id_" THEN id_ ELSE IF k = "id_short" THEN id_short ELSE kwargs[k]]

\* _create(cls, id_=..., id_short=..., identification=..., **kwargs), without
\* positional arguments.
_create(cls, id_, id_short, identification, kwargs) ==
    LET id1 == IF identification.type # "None" /\ Falsy(id_) THEN identification
               ELSE id_
        id2 == IF Falsy(id1) \/ Blank(id1) THEN AutoId ELSE id1
    IN  IF cls = "AssetAdministrationShell"
        THEN IF "asset_information" \notin DOMAIN kwargs
             THEN [type |-> "ValueError"]
             ELSE Instance(cls, id2, NoneVal, id_short)
        ELSE IF cls = "AssetInformation"
        THEN Instance(cls, NoneVal, NoneVal, NoneVal)
        ELSE LET first == Construct(cls, WithIds(kwargs, id2, id_short))
             IN  IF first.type = "TypeError" THEN Construct(cls, kwargs)
                 ELSE first

\* cv: one use of the two helpers as the tests make it: ident = _ident(data),
\* then obj = _create(cls, id_short=..., identification=ident, **kwargs).
CvIdle ==
    [pc |-> "idle", idkind |-> "none", data |-> [kind |-> "str", s |-> <<>>],
     ident |-> NoneVal, cls |-> "Dummy", id_ |-> NoneVal, id_short |-> NoneVal,
     kwargs |-> <<>>, obj |-> NoneVal]

IdentCall ==
    /\ cv.pc = "call"
    /\ cv' = [cv EXCEPT !.pc = "ident",
                        !.ident = _ident(cv.idkind, cv.data, DefaultFallback)]
    /\ UNCHANGED <<graph, gop, dj, ast, ch, ga, mn>>

CreateCall ==
    /\ cv.pc = "ident"
    /\ cv' = [cv EXCEPT !.pc = "created",
                        !.obj = _create(cv.cls, cv.id_, cv.id_short, cv.ident,
                                        cv.kwargs)]
    /\ UNCHANGED <<graph, gop, dj, ast, ch, ga, mn>>

\* --------------------------------------------- graph construction (SpecGraph)
\* gop: the last graph operation, the names it was given, the error it reported,
\* whether the pair was already connected (had), and the number of operations.  The scripts add nodes and edges over a
\* few names (OpNames) and coordinates (OpCoords).
OpNames == {"A", "B", "C"}

OpCoords == {<<0, 0>>, <<0, MaxLon>>}

GopInit == [last |-> "init", args |-> <<>>, err |-> "none", had |-> FALSE, n |-> 0]

InitGraph ==
    /\ graph = EmptyGraph
    /\ gop = GopInit
    /\ dj = DjIdle
    /\ ast = AstIdle
    /\ ch = ChIdle
    /\ ga = GaIdle
    /\ mn = MnIdle
    /\ cv = CvIdle

AddNode ==
    /\ gop.n < MaxOps
    /\ gop.last # "build"
    /\ \E name \in OpNames, c \in OpCoords :
        /\ graph' = add_node(graph, name, c)
        /\ gop' = [last |-> "add_node", args |-> <<name>>, err |-> "none",
                   had |-> FALSE, n |-> gop.n + 1]
    /\ UNCHANGED <<dj, ast, ch, ga, mn, cv>>

AddEdge ==
    /\ gop.n < MaxOps
    /\ gop.last # "build"
    /\ \E a \in OpNames, b \in OpNames, w \in Weights :
        /\ graph' = add_edge(graph, a, b, w)
        /\ gop' = [last |-> "add_edge", args |-> <<a, b>>,
                   err |-> add_edge_error(graph, a, b),
                   had |-> a \in NodeSet(graph) /\ b \in NbrNames(graph, a),
                   n |-> gop.n + 1]
    /\ UNCHANGED <<dj, ast, ch, ga, mn, cv>>

\* build_graph_from_aas makes its own Graph(), so it is taken from the start.
Build ==
    /\ gop.last = "init"
    /\ \E k \in 0..Cardinality(Names) :
       \E keys \in KeyOrders(k), vals \in [1..k -> Coords] :
        /\ graph' = build_graph_from_aas(MakeDict(keys, vals))
        /\ gop' = [last |-> "build", args |-> MakeDict(keys, vals), err |-> "none",
                   had |-> FALSE, n |-> gop.n + 1]
    /\ UNCHANGED <<dj, ast, ch, ga, mn, cv>>

vars == <<graph, gop, dj, ast, ch, ga, mn, cv>>

NextGraph == AddNode \/ AddEdge \/ Build

SpecGraph == InitGraph /\ [][NextGraph]_vars

\* ------------------------------------------------- the searches (SpecSearch)
\* The graphs searched.  (1) Any graph over the four names: the nodes added in
\* the order A, B, C, D at fixed coordinates, then an edge of any weight, or
\* none, for each pair.  (2) The complete graphs build_graph_from_aas makes.
NameSeq == <<"A", "B", "C", "D">>

Pairs == <<<<"A", "B">>, <<"A", "C">>, <<"A", "D">>,
           <<"B", "C">>, <<"B", "D">>, <<"C", "D">>>>

NoEdge == MaxW + 1

FixedDict == [i \in 1..Len(NameSeq) |-> <<NameSeq[i], <<0, (i - 1) % FullTurn>>>>]

RECURSIVE AddPairs(_, _, _, _)
AddPairs(g, pairs, ws, i) ==
    IF i > Len(pairs) THEN g
    ELSE AddPairs(IF ws[i] = NoEdge THEN g
                  ELSE add_edge(g, pairs[i][1], pairs[i][2], ws[i]),
                  pairs, ws, i + 1)

AnyGraphs ==
    {AddPairs(AddNodes(EmptyGraph, FixedDict, 1), Pairs, ws, 1) :
        ws \in [1..Len(Pairs) -> Weights \cup {NoEdge}]}

BuiltDicts ==
    UNION {{MakeDict(SubSeq(NameSeq, 1, k), vals) : vals \in [1..k -> Coords]} :
            k \in 1..Len(NameSeq)}

InitSearch ==
    /\ gop = GopInit
    /\ \/ graph \in AnyGraphs
       \/ \E coords \in BuiltDicts : graph = build_graph_from_aas(coords)
    /\ \E start \in Names, goal \in Names :
          dj = [DjIdle EXCEPT !.pc = "call", !.start = start, !.goal = goal]
    /\ ast = AstIdle
    /\ ch = ChIdle
    /\ ga = GaIdle
    /\ mn = MnIdle
    /\ cv = CvIdle

NextSearch ==
    \/ DijkstraEnter
    \/ DijkstraStep
    \/ DijkstraExhausted
    \/ DijkstraReturn

SpecSearch == InitSearch /\ [][NextSearch]_vars

\* -------------------------------------- termination of the search (SpecTermination)
\* The searches from the first node of any graph over the four names.
\* run_dijkstra is synchronous code: once called it runs on until it returns
\* or raises, so a step that can be taken is taken (weak fairness).
InitTermination ==
    /\ gop = GopInit
    /\ graph \in AnyGraphs
    /\ \E goal \in Names :
          dj = [DjIdle EXCEPT !.pc = "call", !.start = NameSeq[1], !.goal = goal]
    /\ ast = AstIdle
    /\ ch = ChIdle
    /\ ga = GaIdle
    /\ mn = MnIdle
    /\ cv = CvIdle

SpecTermination == InitTermination /\ [][NextSearch]_vars /\ WF_vars(NextSearch)

\* ------------------------------------- A* against Dijkstra (SpecCompare)
\* Both searches on the same graph and the same start/goal pair.
InitCompare ==
    /\ gop = GopInit
    /\ \/ graph \in AnyGraphs
       \/ \E coords \in BuiltDicts : graph = build_graph_from_aas(coords)
    /\ \E start \in Names, goal \in Names :
          /\ dj = [DjIdle EXCEPT !.pc = "call", !.start = start, !.goal = goal]
          /\ ast = [AstIdle EXCEPT !.pc = "call", !.start = start, !.goal = goal]
    /\ ch = ChIdle
    /\ ga = GaIdle
    /\ mn = MnIdle
    /\ cv = CvIdle

NextCompare ==
    \/ DijkstraEnter
    \/ DijkstraStep
    \/ DijkstraExhausted
    \/ DijkstraReturn
    \/ AStarEnter
    \/ AStarStep
    \/ AStarExhausted

SpecCompare == InitCompare /\ [][NextCompare]_vars

\* ----------------------------------------------- waypoint chaining (SpecChain)
\* Graphs over the nodes A, B, C with any edges; waypoint lists of up to
\* MaxWaypoints names (D is no node of these graphs).
ChainDict == SubSeq(FixedDict, 1, 3)

ChainPairs == <<<<"A", "B">>, <<"A", "C">>, <<"B", "C">>>>

ChainGraphs ==
    {AddPairs(AddNodes(EmptyGraph, ChainDict, 1), ChainPairs, ws, 1) :
        ws \in [1..Len(ChainPairs) -> Weights \cup {NoEdge}]}

WaypointLists == UNION {[1..k -> Names] : k \in 1..MaxWaypoints}

InitChain ==
    /\ gop = GopInit
    /\ graph \in ChainGraphs
    /\ dj = DjIdle
    /\ ast = AstIdle
    /\ \E nodes \in WaypointLists, algo \in {"dijkstra", "astar"} :
          ch = [ChIdle EXCEPT !.pc = "call", !.nodes = nodes, !.algo = algo]
    /\ ga = GaIdle
    /\ mn = MnIdle
    /\ cv = CvIdle

NextChain ==
    \/ ChainEnter
    \/ ChainCallSegment
    \/ ChainCollect
    \/ ChainReturn
    \/ DijkstraEnter
    \/ DijkstraStep
    \/ DijkstraExhausted
    \/ DijkstraReturn
    \/ AStarEnter
    \/ AStarStep
    \/ AStarExhausted

SpecChain == InitChain /\ [][NextChain]_vars

\* ------------------------------------------------ the GA optimizer (SpecGA)
\* main's flow (line 206), cut to its first three steps; four machines around
\* the circle, their processes in flow order; the graph main builds over all
\* machines.
ProcessFlow == <<"Forging", "Turning", "Milling">>

GaNames == <<"A", "B", "C", "D">>

NonDecreasing(f) == \A i, j \in DOMAIN f : i <= j => f[i] <= f[j]

MachineDicts ==
    {[i \in DOMAIN GaNames |->
        [name |-> GaNames[i], coords |-> <<0, (i - 1) % FullTurn>>,
         process |-> ProcessFlow[f[i]]]] :
     f \in {h \in [DOMAIN GaNames -> DOMAIN ProcessFlow] : NonDecreasing(h)}}

InitGA ==
    /\ gop = GopInit
    /\ dj = DjIdle
    /\ ast = AstIdle
    /\ ch = ChIdle
    /\ \E machines \in MachineDicts, n \in DOMAIN ProcessFlow,
          generations \in 0..MaxGen, pop_size \in {0, 1, PopSize} :
          /\ graph = build_graph_from_aas(MachineCoords(machines))
          /\ ga = [GaIdle EXCEPT !.pc = "call", !.machines = machines,
                                 !.process_flow = SubSeq(ProcessFlow, 1, n),
                                 !.generations = generations,
                                 !.pop_size = pop_size]
    /\ mn = MnIdle
    /\ cv = CvIdle

NextGA ==
    GAEnter \/ GAGenStart \/ GACrossover \/ GAMutate \/ GAReplace \/ GAReturn

SpecGA == InitGA /\ [][NextGA]_vars

\* ------------------------------------------- the comparison harness (SpecMain)
\* The machines the loader hands to main: up to five, keyed by their names,
\* around the circle, their processes in flow order; every --algorithm choice.
\* The waypoints are distinct nodes of a complete graph, so no search of main
\* runs its frontier dry: the two "exhausted" steps have no place here.
MainNames == <<"A", "B", "C", "D", "E">>

Algorithms == {"all", "astar", "dijkstra", "ga"}

MainMachineDicts ==
    UNION {{[i \in 1..k |->
                [name |-> MainNames[i], coords |-> <<0, (i - 1) % FullTurn>>,
                 process |-> SelectFlow[f[i]]]] :
            f \in {h \in [1..k -> DOMAIN SelectFlow] : NonDecreasing(h)}} :
           k \in 0..Len(MainNames)}

InitMain ==
    /\ graph = EmptyGraph
    /\ gop = GopInit
    /\ dj = DjIdle
    /\ ast = AstIdle
    /\ ch = ChIdle
    /\ ga = GaIdle
    /\ \E machines \in MainMachineDicts, algorithm \in Algorithms,
          generations \in {0, MaxGen}, population \in {0, PopSize} :
          mn = [MnIdle EXCEPT !.pc = "call", !.machines = machines,
                              !.algorithm = algorithm,
                              !.generations = generations,
                              !.population = population]
    /\ cv = CvIdle

NextMain ==
    \/ MainStart
    \/ MainAStarDone
    \/ MainDijkstraDone
    \/ MainGADone
    \/ ChainEnter
    \/ ChainCallSegment
    \/ ChainCollect
    \/ ChainReturn
    \/ DijkstraEnter
    \/ DijkstraStep
    \/ DijkstraReturn
    \/ AStarEnter
    \/ AStarStep
    \/ GAEnter
    \/ GAGenStart
    \/ GACrossover
    \/ GAMutate
    \/ GAReplace
    \/ GAReturn

SpecMain == InitMain /\ [][NextMain]_vars

\* --------------------------------------------- the converter helpers (SpecConvert)
\* Every string of up to MaxStr characters, as a str or as the id of a dict,
\* with each kind of aas.Identifier and each class _create knows.
IdKinds == {"none", "class", "alias", "strict"}

Classes == {"Dummy", "Sdk", "AssetAdministrationShell", "AssetInformation"}

DataValues ==
    {[kind |-> "str", s |-> s] : s \in Strings}
        \cup {[kind |-> "dict", s |-> s, idType |-> "IRI"] : s \in Strings}

KwargsValues == {<<>>, [asset_information |-> StrVal(<<"a">>)]}

InitConvert ==
    /\ graph = EmptyGraph
    /\ gop = GopInit
    /\ dj = DjIdle
    /\ ast = AstIdle
    /\ ch = ChIdle
    /\ ga = GaIdle
    /\ mn = MnIdle
    /\ \E idkind \in IdKinds, data \in DataValues, cls \in Classes,
          id_ \in {NoneVal, StrVal(<<"a">>)}, id_short \in {NoneVal, StrVal(<<"a">>)},
          kwargs \in KwargsValues :
          cv = [CvIdle EXCEPT !.pc = "call", !.idkind = idkind, !.data = data,
                              !.cls = cls, !.id_ = id_, !.id_short = id_short,
                              !.kwargs = kwargs]

NextConvert == IdentCall \/ CreateCall

SpecConvert == InitConvert /\ [][NextConvert]_vars

\* ---------------------------------------------------- claims on the searches
\* The costs of the simple paths from cur to t that avoid the nodes in seen.
RECURSIVE PathCosts(_, _, _, _)
PathCosts(g, cur, t, seen) ==
    IF cur = t THEN {0}
    ELSE UNION {{g.neighbors[cur][i][2] + c :
                    c \in PathCosts(g, g.neighbors[cur][i][1], t, seen \cup {cur})} :
                i \in {k \in DOMAIN g.neighbors[cur] :
                          g.neighbors[cur][k][1] \notin seen \cup {cur}}}

Reachable(g, s, t) ==
    s \in NodeSet(g) /\ t \in NodeSet(g) /\ PathCosts(g, s, t, {}) # {}

MinOf(S) == CHOOSE x \in S : \A y \in S : x <= y

MinCost(g, s, t) == MinOf(PathCosts(g, s, t, {}))

Joined(g, a, b) == a \in NodeSet(g) /\ b \in NbrNames(g, a)

\* C2: with the goal reachable, run_dijkstra (and dijkstra_path, the same loop
\* without the step counter) returns the least sum of edge weights over all
\* paths from start to goal.
Thm_C2 ==
    (dj.pc \in {"done", "error"} /\ Reachable(graph, dj.start, dj.goal)) =>
        /\ dj.pc = "done"
        /\ dj.cost = MinCost(graph, dj.start, dj.goal)

\* The least cost is that of a path through two intermediate nodes, below the
\* cost of the direct edge.
Wit_C2 ==
    /\ dj.pc = "done"
    /\ Len(dj.path) = 4
    /\ Joined(graph, dj.start, dj.goal)
    /\ dj.cost < FirstWeight(graph.neighbors[dj.start], dj.goal, 1)
    /\ dj.cost = MinCost(graph, dj.start, dj.goal)

\* C3: a successful run_dijkstra returns a path from start to goal along edges
\* of the graph, without a repeated node, and the cost is the sum of the
\* weights of its edges.
Thm_C3 ==
    (dj.pc = "done" /\ dj.path # <<>>) =>
        /\ dj.path[1] = dj.start
        /\ dj.path[Len(dj.path)] = dj.goal
        /\ \A i \in 1..(Len(dj.path) - 1) : Joined(graph, dj.path[i], dj.path[i + 1])
        /\ \A i, j \in DOMAIN dj.path : dj.path[i] = dj.path[j] => i = j
        /\ dj.cost = path_distance(graph, dj.path)

Wit_C3 ==
    /\ dj.pc = "done"
    /\ Len(dj.path) = 3
    /\ dj.cost = MaxW + 1
    /\ dj.path[1] = dj.start
    /\ dj.path[3] = dj.goal

\* C4: an unreachable goal gives "no path" (empty path, infinite cost), a
\* reachable goal never does, and start = goal gives the path [start] at cost 0.
Thm_C4 ==
    /\ (dj.pc \in {"done", "error"}
          /\ dj.start \in NodeSet(graph) /\ dj.goal \in NodeSet(graph))
       => dj.pc = "done"
    /\ dj.pc = "done" =>
        /\ ~Reachable(graph, dj.start, dj.goal) => (dj.path = <<>> /\ dj.cost = Inf)
        /\ Reachable(graph, dj.start, dj.goal) => (dj.path # <<>> /\ dj.cost # Inf)
        /\ dj.start = dj.goal => (dj.path = <<dj.start>> /\ dj.cost = 0)

\* "No path" from a start that has neighbours.
Wit_C4 ==
    /\ dj.pc = "done"
    /\ dj.path = <<>>
    /\ dj.cost = Inf
    /\ dj.steps >= 2
    /\ graph.neighbors[dj.goal] = <<>>

\* ------------------------------------------------------ claims on the Graph
\* The undirected edges of g: the pairs {a, b} with b in a's neighbour list.
EdgeSet(g) == UNION {{{a, b} : b \in NbrNames(g, a)} : a \in NodeSet(g)}

Degree(g, a) == Len(g.neighbors[a])

\* C5: build_graph_from_aas over a dict of n distinct names gives n nodes,
\* n*(n-1)/2 undirected edges, degree n-1 at every node, and no node is its
\* own neighbour.
Thm_C5 ==
    gop.last = "build" =>
        LET n == Len(gop.args)
        IN  /\ Len(graph.nodes) = n
            /\ Cardinality(NodeSet(graph)) = n
            /\ 2 * Cardinality(EdgeSet(graph)) = n * (n - 1)
            /\ \A a \in NodeSet(graph) :
                  /\ Degree(graph, a) = n - 1
                  /\ Cardinality(NbrNames(graph, a)) = n - 1
                  /\ a \notin NbrNames(graph, a)

Wit_C5 ==
    /\ gop.last = "build"
    /\ Len(gop.args) = Cardinality(Names)
    /\ Cardinality(EdgeSet(graph)) = 6

\* C6: after any sequence of add_node and add_edge, for distinct nodes a and b:
\* if a lists b with weight w then b lists a with weight w; a pair has at most
\* one entry on each side (a repeated add_edge overwrites); no self-loop.
Thm_C6 ==
    \A a \in NodeSet(graph) :
        /\ a \notin NbrNames(graph, a)
        /\ \A i, j \in DOMAIN graph.neighbors[a] :
              graph.neighbors[a][i][1] = graph.neighbors[a][j][1] => i = j
        /\ \A b \in NodeSet(graph) \ {a} :
              \A i \in DOMAIN graph.neighbors[a] :
                  graph.neighbors[a][i][1] = b =>
                      \E j \in DOMAIN graph.neighbors[b] :
                          graph.neighbors[b][j] = <<a, graph.neighbors[a][i][2]>>

\* An accepted add_edge on an already connected pair, the new weight on both sides.
Wit_C6 ==
    /\ gop.last = "add_edge"
    /\ gop.err = "none"
    /\ gop.had
    /\ \E w \in Weights :
          /\ w # 0
          /\ \E i \in DOMAIN graph.neighbors[gop.args[1]] :
                graph.neighbors[gop.args[1]][i] = <<gop.args[2], w>>
          /\ \E j \in DOMAIN graph.neighbors[gop.args[2]] :
                graph.neighbors[gop.args[2]][j] = <<gop.args[1], w>>

\* C7: add_edge with a name that is not a node reports an error and leaves the
\* node set and every neighbour list as they were.
Thm_C7 ==
    [][(/\ gop'.last = "add_edge"
        /\ \/ gop'.args[1] \notin NodeSet(graph)
           \/ gop'.args[2] \notin NodeSet(graph))
       => (gop'.err = "missing_node" /\ graph' = graph)]_vars

\* A rejected add_edge one of whose endpoints does exist.
Wit_C7 ==
    /\ gop.last = "add_edge"
    /\ gop.err = "missing_node"
    /\ gop.args[1] \in NodeSet(graph)
    /\ gop.args[2] \notin NodeSet(graph)

\* No edge is shorter than the haversine distance between its endpoints; so it
\* is in every graph build_graph_from_aas builds, where the two are equal.
WeightsCoverDistances(g) ==
    \A a \in NodeSet(g) :
        \A i \in DOMAIN g.neighbors[a] :
            LET b == g.neighbors[a][i][1]
            IN  g.neighbors[a][i][2] >=
                    haversine(g.coord[a][1], g.coord[a][2], g.coord[b][1], g.coord[b][2])

BothDone == dj.pc = "done" /\ ast.pc = "done"

\* C1 as stated: on any graph, with the goal reachable, run_astar and
\* run_dijkstra report the same cost.
Orig_C1 ==
    (BothDone /\ Reachable(graph, dj.start, dj.goal)) => ast.cost = dj.cost

\* C1 as amended: on any graph none of whose edges is shorter than the
\* haversine distance between its endpoints, with the goal reachable,
\* run_astar and run_dijkstra report the same cost, whatever paths they return.
Thm_C1 ==
    (BothDone /\ Reachable(graph, dj.start, dj.goal) /\ WeightsCoverDistances(graph))
        => ast.cost = dj.cost

\* Equal costs on two different paths of three nodes.
Wit_C1 ==
    /\ BothDone
    /\ WeightsCoverDistances(graph)
    /\ ast.cost = dj.cost
    /\ ast.path # dj.path
    /\ Len(ast.path) = 3
    /\ Len(dj.path) = 3
    /\ ast.cost > 0

\* --------------------------------------------------- claims on the chaining
\* The path a segment contributes: the direct pair when the search found none.
SegPath(j) ==
    IF ch.segs[j].path = <<>> THEN <<ch.nodes[j], ch.nodes[j + 1]>>
    ELSE ch.segs[j].path

\* Where segment j starts in the full path, less one: each earlier segment
\* takes its length less the boundary node it shares.
RECURSIVE Offset(_)
Offset(j) == IF j <= 1 THEN 0 ELSE Offset(j - 1) + Len(SegPath(j - 1)) - 1

RECURSIVE SumDist(_)
SumDist(j) == IF j = 0 THEN 0 ELSE Add(SumDist(j - 1), ch.segs[j].dist)

RECURSIVE SumSteps(_)
SumSteps(j) == IF j = 0 THEN 0 ELSE SumSteps(j - 1) + ch.segs[j].steps

AllSegmentsFound == \A j \in DOMAIN ch.segs : ch.segs[j].path # <<>>

ChainDone == ch.pc = "done" /\ Len(ch.nodes) >= 2

\* C8: with every segment found, the full path starts with n0, ends with nk,
\* is the segments' paths laid end to end with each shared boundary node once,
\* and the totals are the sums of the segments' distances and step counts.
Thm_C8 ==
    (ChainDone /\ AllSegmentsFound) =>
        LET k == Len(ch.segs)
        IN  /\ k = Len(ch.nodes) - 1
            /\ ch.full_path[1] = ch.nodes[1]
            /\ ch.full_path[Len(ch.full_path)] = ch.nodes[Len(ch.nodes)]
            /\ Len(ch.full_path) = Offset(k + 1) + 1
            /\ \A j \in 1..k : \A m \in DOMAIN ch.segs[j].path :
                  ch.full_path[Offset(j) + m] = ch.segs[j].path[m]
            /\ ch.total_dist = SumDist(k)
            /\ ch.total_steps = SumSteps(k)

\* Two segments of three nodes each, joined at the node they share.
Wit_C8 ==
    /\ ChainDone
    /\ AllSegmentsFound
    /\ Len(ch.segs) = 2
    /\ Len(ch.segs[1].path) = 3
    /\ Len(ch.segs[2].path) = 3
    /\ Len(ch.full_path) = 5
    /\ ch.total_dist > 0

Thm_C10 ==
    /\ (ga.pc \in {"gen", "done"} /\ ga.gen > 0 /\ ga.population # <<>>) =>
          BestFitness(ga.population) <= ga.prev_best
    /\ (ga.pc \in {"gen", "child", "mutate", "done"} /\ ga.population # <<>>) =>
          BestFitness(ga.population) <= fitness(ga.init_best)
    /\ ga.pc = "done" =>
        /\ ga.best_fitness = BestFitness(ga.population)
        /\ ga.best_fitness <= fitness(ga.init_best)
        /\ ga.best_path = decode_individual(ga.population[1])
        /\ ga.generations = 0 =>
              /\ ga.best_path = decode_individual(ga.init_best)
              /\ ga.best_fitness = fitness(ga.init_best)

\* Two generations, the best fitness unchanged by the first and strictly
\* better after the second.
Wit_C10 ==
    /\ ga.pc = "done"
    /\ ga.generations = 2
    /\ ga.pop_size = PopSize
    /\ ga.prev_best = fitness(ga.init_best)
    /\ ga.best_fitness < ga.prev_best

\* ---------------------------------------------------- claims on the harness
FieldNames == {"algorithm", "path", "distance_km", "time_s", "optimal", "iterations"}

AlgorithmsOf(results) == [i \in DOMAIN results |-> results[i].algorithm]

\* C11: in every result set the A* record is flagged optimal, and any other
\* record is flagged optimal exactly when its cost and the cost of the A*
\* record of the same set differ by less than the tolerance (costs are finite
\* whole numbers of units here, so: when they are equal).
Thm_C11 ==
    \A i \in DOMAIN mn.results :
        LET r == mn.results[i]
        IN  /\ r.distance_km # Inf
            /\ r.optimal \in BOOLEAN
            /\ IF r.algorithm = "astar" THEN r.optimal = TRUE
               ELSE \E j \in DOMAIN mn.results :
                      /\ mn.results[j].algorithm = "astar"
                      /\ r.optimal <=> (Abs(r.distance_km - mn.results[j].distance_km) = 0)

\* All three strategies ran: Dijkstra agrees with A*, the GA's route does not.
Wit_C11 ==
    /\ mn.pc = "done"
    /\ Len(mn.results) = 3
    /\ mn.results[1].optimal
    /\ mn.results[2].optimal
    /\ mn.results[2].distance_km = mn.results[1].distance_km
    /\ ~mn.results[3].optimal
    /\ mn.results[3].distance_km < mn.results[1].distance_km

\* C12 as stated: the result set has a record for exactly the strategies
\* --algorithm selects, one each, every record with the six fields.
Orig_C12 ==
    mn.pc = "done" =>
        /\ Range(AlgorithmsOf(mn.results)) =
              IF mn.algorithm = "all" THEN {"astar", "dijkstra", "ga"}
              ELSE {mn.algorithm}
        /\ Injective(AlgorithmsOf(mn.results))
        /\ \A i \in DOMAIN mn.results : DOMAIN mn.results[i] = FieldNames

\* C12 as amended: a result set holds, in this order, one record for A*
\* whatever --algorithm is, one for Dijkstra exactly under "all" and
\* "dijkstra", one for the GA exactly under "all" and "ga"; the A* and the
\* Dijkstra record are routes over the same waypoint sequence, from its first
\* to its last name; every record has the six fields.
Thm_C12 ==
    mn.pc = "done" =>
        /\ AlgorithmsOf(mn.results) =
              <<"astar">>
              \o (IF mn.algorithm \in {"all", "dijkstra"} THEN <<"dijkstra">> ELSE <<>>)
              \o (IF mn.algorithm \in {"all", "ga"} THEN <<"ga">> ELSE <<>>)
        /\ \A i \in DOMAIN mn.results :
              LET r == mn.results[i]
              IN  /\ DOMAIN r = FieldNames
                  /\ r.algorithm \in {"astar", "dijkstra"} =>
                        /\ r.path[1] = mn.node_names[1]
                        /\ r.path[Len(r.path)] = mn.node_names[Len(mn.node_names)]
                        /\ \A k \in DOMAIN mn.node_names :
                              \E m \in DOMAIN r.path : r.path[m] = mn.node_names[k]

\* --algorithm dijkstra: the A* record and the Dijkstra record, over five waypoints.
Wit_C12 ==
    /\ mn.pc = "done"
    /\ mn.algorithm = "dijkstra"
    /\ AlgorithmsOf(mn.results) = <<"astar", "dijkstra">>
    /\ Len(mn.node_names) = 5

\* ------------------------------------------------ claims on termination
LoopStep == dj.pc = "loop" /\ dj.queue # {}

\* C13 as stated: every step of the Dijkstra loop strictly grows the visited
\* set.
Orig_C13 ==
    [][LoopStep => Cardinality(dj'.visited) > Cardinality(dj.visited)]_vars

\* C13 as amended: the loop of run_dijkstra (and of dijkstra_path) ends, by
\* reaching the goal or by running the frontier dry; every step of it removes
\* the popped entry and either adds its node, a node of the graph, to the
\* visited set, or finds the node visited already and then adds no entry and
\* visits nothing; the visited set never has more members than the graph has nodes,
\* and the step counter counts its members.
Thm_C13 ==
    /\ [](dj.pc \in {"loop", "after", "done"} =>
            /\ dj.visited \subseteq NodeSet(graph)
            /\ Cardinality(dj.visited) <= Len(graph.nodes)
            /\ dj.steps = Cardinality(dj.visited))
    /\ [][LoopStep =>
            \E e \in dj.queue :
               /\ e \notin dj'.queue
               /\ \/ /\ e[2] \notin dj.visited
                     /\ dj'.visited = dj.visited \cup {e[2]}
                  \/ /\ e[2] \in dj.visited
                     /\ dj'.visited = dj.visited
                     /\ dj'.queue = dj.queue \ {e}]_vars
    /\ <>(dj.pc \in {"done", "error"})

\* An entry of a node visited before is in the frontier: the step that pops it
\* will visit nothing.
Wit_C13 ==
    /\ dj.pc = "loop"
    /\ \E e \in MinEntries(dj.queue) : e[2] \in dj.visited
    /\ Cardinality(dj.visited) >= 3

\* ------------------------------------------------ claims on the step counts
\* No node other than the goal lies where the goal lies.
GoalStandsAlone(g, goal) ==
    \A n \in NodeSet(g) \ {goal} :
        haversine(g.coord[n][1], g.coord[n][2], g.coord[goal][1], g.coord[goal][2]) > 0

\* C14 as stated: on the same graph and start/goal pair the step count of A*
\* is at most the step count of run_dijkstra.
Orig_C14 == BothDone => ast.steps <= dj.steps

\* C14 as amended: the same, on a graph none of whose edges is shorter than
\* the haversine distance between its endpoints and where no other node has
\* the coordinates of the goal.
Thm_C14 ==
    (BothDone /\ WeightsCoverDistances(graph) /\ GoalStandsAlone(graph, dj.goal))
        => ast.steps <= dj.steps

\* A* reaches the goal in fewer steps than Dijkstra, over a path of three nodes.
Wit_C14 ==
    /\ BothDone
    /\ WeightsCoverDistances(graph)
    /\ GoalStandsAlone(graph, dj.goal)
    /\ Len(ast.path) = 3
    /\ ast.steps < dj.steps
    /\ dj.steps = 4

\* ------------------------------------------------ the collinear scenario
EdgeWeight(g, a, b) == FirstWeight(g.neighbors[a], b, 1)

\* The complete graph build_graph_from_aas makes over A, B, C (in this order)
\* with B between A and C: the way from A to C over B is as long as the direct one.
CollinearABC(g) ==
    /\ g.nodes = <<"A", "B", "C">>
    /\ g = build_graph_from_aas([i \in 1..3 |-> <<g.nodes[i], g.coord[g.nodes[i]]>>])
    /\ EdgeWeight(g, "A", "C") = EdgeWeight(g, "A", "B") + EdgeWeight(g, "B", "C")

ScenarioC15 ==
    BothDone /\ CollinearABC(graph) /\ dj.start = "A" /\ dj.goal = "C"

\* C15 as stated: both searches return the path [A, B, C] at the cost
\* weight(A,B) + weight(B,C).
Orig_C15 ==
    ScenarioC15 =>
        /\ dj.path = <<"A", "B", "C">>
        /\ ast.path = <<"A", "B", "C">>
        /\ dj.cost = EdgeWeight(graph, "A", "B") + EdgeWeight(graph, "B", "C")
        /\ ast.cost = dj.cost

\* C15 as amended: both searches return the direct path [A, C], whose cost
\* weight(A,C) equals weight(A,B) + weight(B,C): the route over B is as long
\* and does not displace it.
Thm_C15 ==
    ScenarioC15 =>
        /\ dj.path = <<"A", "C">>
        /\ dj.cost = EdgeWeight(graph, "A", "B") + EdgeWeight(graph, "B", "C")
        /\ dj.cost = EdgeWeight(graph, "A", "C")
        /\ ast.path = dj.path
        /\ ast.cost = dj.cost

\* B strictly between A and C, and visited by Dijkstra before the goal.
Wit_C15 ==
    /\ ScenarioC15
    /\ EdgeWeight(graph, "A", "B") > 0
    /\ EdgeWeight(graph, "B", "C") > 0
    /\ "B" \in dj.visited
    /\ dj.path = <<"A", "C">>

\* ------------------------------------------------ claims on the converter
\* _create(cls, id_short=x, identification=ident) as the tests call it: a plain
\* class taking id, identification and id_short, no id_, no other keyword, and
\* ident what _ident returned for a string.
CallOfTests ==
    /\ cv.pc = "created"
    /\ cv.cls = "Dummy"
    /\ cv.id_ = NoneVal
    /\ cv.id_short # NoneVal
    /\ cv.kwargs = <<>>
    /\ cv.data.kind = "str"
    /\ cv.idkind \in {"class", "alias"}

\* C16 as stated, and as test_ident_class and test_ident_str_alias assert it:
\* the instance returned carries the supplied ident as its identification.
Orig_C16 ==
    CallOfTests =>
        /\ cv.obj.type = "instance"
        /\ cv.obj.cls = cv.cls
        /\ cv.obj.identification = cv.ident

\* What the code returns for that call: an instance made without any argument.
Wit_C16 ==
    /\ CallOfTests
    /\ cv.ident # NoneVal
    /\ cv.obj = Instance("Dummy", NoneVal, NoneVal, NoneVal)

\* The identifier string _ident makes of s, stated by positions: the part of s
\* from its first to its last non-whitespace character, each " " in it
\* written "_"; the fallback id when s has no such character.
AllSpace(s) == \A k \in DOMAIN s : IsSpace(s[k])

FirstInk(s) == CHOOSE i \in DOMAIN s :
                   ~IsSpace(s[i]) /\ \A k \in 1..(i - 1) : IsSpace(s[k])

LastInk(s) == CHOOSE j \in DOMAIN s :
                  ~IsSpace(s[j]) /\ \A k \in (j + 1)..Len(s) : IsSpace(s[k])

Normalised(s) ==
    IF AllSpace(s) THEN DefaultFallback
    ELSE [k \in 1..(LastInk(s) - FirstInk(s) + 1) |->
             LET c == s[FirstInk(s) + k - 1] IN IF c = " " THEN "_" ELSE c]

IdentOfString ==
    /\ cv.pc \in {"ident", "created"}
    /\ cv.data.kind = "str"
    /\ cv.data.s # <<>>

\* C17 as stated: for a non-empty string s the identifier is s itself (id s and
\* id_type "Custom" where Identifier is a class, a value equal to s where it
\* rejects the keywords), and it is never empty.
Orig_C17 ==
    IdentOfString =>
        /\ cv.idkind = "class" =>
              cv.ident = [type |-> "Identifier", id |-> cv.data.s, id_type |-> "Custom"]
        /\ cv.idkind \in {"alias", "strict"} => cv.ident = StrVal(cv.data.s)
        /\ cv.idkind # "none" => cv.ident \notin {StrVal(<<>>), NoneVal}

\* C17 as amended: the identifier is s without its surrounding whitespace and
\* with "_" for each space (the fallback id if nothing is left); it is never
\* empty, and an empty input yields the fallback id.
Thm_C17 ==
    /\ IdentOfString =>
        /\ cv.idkind = "class" =>
              cv.ident = [type |-> "Identifier", id |-> Normalised(cv.data.s),
                          id_type |-> "Custom"]
        /\ cv.idkind \in {"alias", "strict"} =>
              cv.ident = StrVal(Normalised(cv.data.s))
    /\ (cv.pc \in {"ident", "created"} /\ cv.data.kind = "str" /\ cv.idkind # "none") =>
        /\ cv.ident \notin {StrVal(<<>>), NoneVal}
        /\ cv.ident.type = "Identifier" => cv.ident.id # <<>>
        /\ cv.data.s = <<>> =>
              cv.ident \in {StrVal(DefaultFallback),
                            [type |-> "Identifier", id |-> DefaultFallback,
                             id_type |-> "Custom"]}

\* A string with a space inside and whitespace around has been identified.
Wit_C17 ==
    /\ cv.pc = "ident"
    /\ cv.idkind = "class"
    /\ cv.data = [kind |-> "str", s |-> <<"a", " ", "a">>]
    /\ cv.ident.id = <<"a", "_", "a">>

\* ------------------------------------------------ the graph as a frame
\* main has built the graph and a strategy is under way or through.
GraphBuilt == mn.pc \in {"astar", "dijkstra", "ga", "done", "error"}

\* C18: once the graph is built no step of a strategy (the chained searches
\* with run_dijkstra and A*, the GA with path_distance) changes it: its nodes,
\* their neighbour lists and the weights stay as built.
Thm_C18 ==
    /\ [](GraphBuilt => graph = build_graph_from_aas(MachineCoords(mn.machines)))
    /\ [][GraphBuilt => graph' = graph]_vars

\* All three strategies have run over a graph with edges.
Wit_C18 ==
    /\ mn.pc = "done"
    /\ Len(mn.results) = 3
    /\ mn.generations > 0
    /\ mn.population > 0
    /\ Len(graph.nodes) >= 4
    /\ graph = build_graph_from_aas(MachineCoords(mn.machines))

\* ------------------------------------------------ claims on the GA population
SortedByFitness(pop) ==
    \A i, j \in DOMAIN pop : i <= j => fitness(pop[i]) <= fitness(pop[j])

Occurrences(pop, x) == Cardinality({i \in DOMAIN pop : pop[i] = x})

SameIndividuals(p, q) ==
    /\ Len(p) = Len(q)
    /\ \A x \in Range(p) \cup Range(q) : Occurrences(p, x) = Occurrences(q, x)

\* C19: before and after every generation the population has pop_size
\* individuals; a generation starts by ordering the same individuals by
\* fitness and putting the first two, those of lowest fitness, into the next
\* generation; no child appended later changes these two, and they head the
\* population that replaces the current one.
Thm_C19 ==
    /\ [](ga.pc \in {"gen", "child", "mutate", "done"} =>
            Len(ga.population) = ga.pop_size)
    /\ [][(ga.pc = "gen" /\ ga'.pc = "child") =>
            /\ SameIndividuals(ga'.population, ga.population)
            /\ SortedByFitness(ga'.population)
            /\ ga'.next_gen = Prefix(ga'.population, EliteCount)]_vars
    /\ [][(ga.pc = "child" /\ ga'.pc = "mutate") =>
            /\ ga'.population = ga.population
            /\ ga'.next_gen = ga.next_gen]_vars
    /\ [][(ga.pc = "mutate" /\ ga'.pc = "child") =>
            /\ ga'.population = ga.population
            /\ Len(ga'.next_gen) = Len(ga.next_gen) + 1
            /\ Prefix(ga'.next_gen, Len(ga.next_gen)) = ga.next_gen]_vars
    /\ [][(ga.pc = "child" /\ ga'.pc = "gen") =>
            /\ Len(ga'.population) = ga.pop_size
            /\ Prefix(ga'.population, EliteCount) = Prefix(ga.population, EliteCount)
            /\ SortedByFitness(ga.population)]_vars

\* After two generations of a full population a child fitter than the first
\* elite stands behind the elites, which kept their places.
Wit_C19 ==
    /\ ga.pc = "gen"
    /\ ga.gen = 2
    /\ ga.pop_size = PopSize
    /\ Len(ga.population) = PopSize
    /\ fitness(ga.population[PopSize]) < fitness(ga.population[1])

\* One gene per step of the flow, each an index into the step's candidates.
Feasible(ind) ==
    /\ DOMAIN ind = DOMAIN ga.process_flow
    /\ \A i \in DOMAIN ind :
          /\ 0 <= ind[i]
          /\ ind[i] < Len(by_process(ga.process_flow[i]))

\* The individual decodes to one machine of the step's process per step.
DecodesToFlow(ind) ==
    LET path == decode_individual(ind)
    IN  /\ Len(path) = Len(ga.process_flow)
        /\ \A i \in DOMAIN path :
              \E k \in DOMAIN ga.machines :
                 /\ ga.machines[k].name = path[i]
                 /\ ga.machines[k].process = ga.process_flow[i]

\* C20: every individual of the population and of the generation being
\* filled (initial, crossover child, mutated child) has one gene per step of
\* the flow, each a valid index into the step's candidates, and decodes to one
\* machine of the right process per step.
Thm_C20 ==
    ga.pc \in {"gen", "child", "mutate", "done"} =>
        \A ind \in Range(ga.population) \cup Range(ga.next_gen)
                     \cup (IF ga.pc = "mutate" THEN {ga.child} ELSE {}) :
            Feasible(ind) /\ DecodesToFlow(ind)

\* The generation being filled is full and its last child has a gene that no
\* member of the current population has at that place: a mutated child.
Wit_C20 ==
    /\ ga.pc = "child"
    /\ ga.pop_size = PopSize
    /\ Len(ga.process_flow) = Len(ProcessFlow)
    /\ Len(ga.next_gen) = PopSize
    /\ \E i \in DOMAIN ga.process_flow :
          /\ \A k \in DOMAIN ga.population :
                ga.population[k][i] # ga.next_gen[PopSize][i]

\* ------------------------------------------------ claims on the GA operators
PoolSize(i) == Len(by_process(ga.process_flow[i]))

Changed(a, b) == {j \in DOMAIN a : a[j] # b[j]}

\* C21: mutate changes at most one gene: at the chosen position, if the step
\* has more than one candidate, the gene becomes a valid index other than the
\* one it was; if the step has one candidate the individual stays as it is;
\* every other position keeps its gene.  The individual appended to the next
\* generation differs from the crossover child in at most one gene.
Thm_C21 ==
    /\ [](ga.pc = "mutate" =>
            \A i \in DOMAIN ga.child : \A out \in MutateAt(ga.child, i) :
                /\ DOMAIN out = DOMAIN ga.child
                /\ Changed(out, ga.child) \subseteq {i}
                /\ PoolSize(i) > 1 =>
                      /\ out[i] # ga.child[i]
                      /\ out[i] \in 0..(PoolSize(i) - 1)
                /\ PoolSize(i) = 1 => out = ga.child)
    /\ [][(ga.pc = "mutate" /\ ga'.pc = "child") =>
            LET out == ga'.next_gen[Len(ga'.next_gen)]
            IN  /\ DOMAIN out = DOMAIN ga.child
                /\ Cardinality(Changed(out, ga.child)) <= 1]_vars

\* A child has been appended with a gene none of the population has at its
\* place, in a flow that also has a step with one candidate only.
Wit_C21 ==
    /\ ga.pc = "child"
    /\ Len(ga.next_gen) > EliteCount
    /\ \E i \in DOMAIN ga.process_flow :
          /\ PoolSize(i) > 1
          /\ \A k \in DOMAIN ga.population :
                ga.population[k][i] # ga.next_gen[Len(ga.next_gen)][i]
    /\ \E j \in DOMAIN ga.process_flow : PoolSize(j) = 1

\* The child has the parents' length and takes its genes from p1 up to a cut
\* and from p2 behind it, the cut leaving each parent at least one position.
IsCrossOf(child, p1, p2) ==
    /\ Len(child) = Len(p1)
    /\ \E c \in 1..(Len(p1) - 1) :
          \A i \in DOMAIN child : child[i] = IF i <= c THEN p1[i] ELSE p2[i]

\* The loop is about to make a child of two parents of length n.
CrossoverDue(n) ==
    /\ ga.pc = "child"
    /\ Len(ga.next_gen) < ga.pop_size
    /\ Len(ga.population) >= 2
    /\ Len(ga.process_flow) = n

CrossoverMade ==
    /\ ga'.pc = "mutate"
    /\ ga'.p1 \in Range(ga.population)
    /\ ga'.p2 \in Range(ga.population)
    /\ Len(ga'.p1) = Len(ga'.p2)
    /\ IsCrossOf(ga'.child, ga'.p1, ga'.p2)
    /\ ga'.population = ga.population
    /\ ga'.next_gen = ga.next_gen

Orig_C23 ==
    [][LoopStep => dj'.steps = dj.steps + 1]_vars

\* C23 as amended: a pop adds one to the step counter when the popped node is
\* not yet visited and nothing when it is; no other step of the search changes
\* the counter, which starts at 0; so the count returned is the number of
\* nodes visited, the pops without those of entries of visited nodes.
Thm_C23 ==
    /\ [][LoopStep =>
            \E e \in MinEntries(dj.queue) :
               /\ e \notin dj'.queue
               /\ e[2] \in dj.visited =>
                     dj'.steps = dj.steps /\ dj'.visited = dj.visited
               /\ e[2] \notin dj.visited =>
                     dj'.steps = dj.steps + 1 /\ e[2] \in dj'.visited]_vars
    /\ [][(dj.pc = "call" /\ dj'.pc = "loop") => dj'.steps = 0]_vars
    /\ [][(dj.pc \in {"loop", "after"} /\ ~LoopStep) => dj'.steps = dj.steps]_vars
    /\ [](dj.pc = "done" => dj.steps = Cardinality(dj.visited))

\* Two nodes are counted and every entry the loop may pop next is the entry
\* of a node visited before.
Wit_C23 ==
    /\ dj.pc = "loop"
    /\ dj.steps >= 2
    /\ dj.queue # {}
    /\ \A e \in MinEntries(dj.queue) : e[2] \in dj.visited

\* ------------------------------------------------ claims on the selection
StepOf(proc) == CHOOSE s \in DOMAIN SelectFlow : SelectFlow[s] = proc

\* The machines of a process, by their places in the dict.
PlacesOf(machines, proc) == {i \in DOMAIN machines : machines[i].process = proc}

FirstOf(machines, proc) ==
    machines[CHOOSE i \in PlacesOf(machines, proc) :
                \A j \in PlacesOf(machines, proc) : i <= j]

\* C24: select_machines returns machines of the dict, one for each step of the
\* flow Forging, Turning, Milling, Grinding, Assembly that has a candidate and
\* none for the others, in flow order; the first is the first candidate of its
\* step, every later one is as near to the one selected before it as any
\* candidate of its step; the machines handed in stay as they were.
Thm_C24 ==
    /\ [](mn.pc \notin {"idle", "call"} /\ mn.machines # <<>> =>
            LET sel == mn.selected
                M == mn.machines
            IN  /\ \A k \in DOMAIN sel : sel[k] \in Range(M)
                /\ \A k, l \in DOMAIN sel :
                      k < l => StepOf(sel[k].process) < StepOf(sel[l].process)
                /\ {sel[k].process : k \in DOMAIN sel}
                      = {M[i].process : i \in DOMAIN M} \cap Range(SelectFlow)
                /\ sel # <<>> => sel[1] = FirstOf(M, sel[1].process)
                /\ \A k \in 2..Len(sel) : \A i \in PlacesOf(M, sel[k].process) :
                      MachineDist(sel[k - 1], sel[k]) <= MachineDist(sel[k - 1], M[i]))
    /\ [][mn.pc # "idle" => mn'.machines = mn.machines]_vars

\* A selection of three or more with a step of the flow skipped, in which a
\* later machine is not the first candidate of its step.
Wit_C24 ==
    /\ mn.pc = "done"
    /\ Len(mn.selected) >= 3
    /\ \E s \in DOMAIN SelectFlow : PlacesOf(mn.machines, SelectFlow[s]) = {}
    /\ \E k \in 2..Len(mn.selected) :
          mn.selected[k] # FirstOf(mn.machines, mn.selected[k].process)

====
